---- MODULE Spec2Model ----
(***************************************************************************)
(* A model of the MAR (Mozilla Archive) reader: the archive handle of      *)
(* src/src/lib.rs (Mar, Files, round_up) and the compression detector of   *)
(* src/src/compression.rs (CompressedRead).                                *)
(*                                                                         *)
(* A byte source is a sequence of bytes with a cursor.  Positions are      *)
(* 0-based as in the code; src[i + 1] is the byte at position i.           *)
(***************************************************************************)
EXTENDS Integers, Sequences, FiniteSets, TLC

VARIABLES
    rn, rincr, rres, rdone,              \* round_up: arguments, result, called
    index, ipos, last, yielded, ents,    \* Files: buffer, cursor, last result, results so far, entries encoded
    src, srcLen, pos,                    \* the byte source: explicit bytes, total length, cursor
    stream, res,                         \* the stream handed out last, the result of the last call
    opened, info, alloc,                 \* Mar: result of opening, offset_to_index, size of the last index allocation
    snap, calls, between                 \* the first files() snapshot, files() calls that succeeded, a read since the first

roundVars == <<rn, rincr, rres, rdone>>
filesVars == <<index, ipos, last, yielded, ents>>
srcVars == <<src, srcLen, pos>>
streamVars == <<stream, res>>
marVars == <<opened, info, alloc, snap, calls, between>>
vars == <<roundVars, filesVars, srcVars, streamVars, marVars>>

\* ------------------------------------------------------------------ bounds

MaxN == 15
MaxIncr == 8
MaxEntries == 2
MaxBody == 7
MaxPad == 1
MaxLength == 8
MaxBuf == 3
MaxFiles == 2

\* --------------------------------------------------------------- helpers

Min(a, b) == IF a < b THEN a ELSE b
Max(a, b) == IF a > b THEN a ELSE b

IsPrefix(s, t) == Len(s) <= Len(t) /\ SubSeq(t, 1, Len(s)) = s

\* ------------------------------------------------------------- constants

BZ2_HEADER == <<66, 90, 104>>
XZ_HEADER == <<253, 55, 122, 88, 90, 0>>
MAX_SIZE_OF_MAR_FILE == 500 * 1024 * 1024

\* The content of the smallest archive: "hello".
Hello == <<104, 101, 108, 108, 111>>

\* A byte that belongs to neither signature.
Plain == Hello[2]

\* ---------------------------------------------------------------- round_up

\* n / (incr + 1) * incr, evaluated left to right on unsigned integers.
round_up(n, incr) == (n \div (incr + 1)) * incr

RoundIdle == rn = 0 /\ rincr = 1 /\ rres = 0 /\ rdone = FALSE

RoundUpCall ==
    /\ \E n \in 0..MaxN, incr \in 1..MaxIncr :
          /\ rn' = n
          /\ rincr' = incr
          /\ rres' = round_up(n, incr)
    /\ rdone' = TRUE
    /\ UNCHANGED <<filesVars, srcVars, streamVars, marVars>>

\* ------------------------------------------------------------ index entries

mar_item_size(name_len) == 3 * 4 + name_len + 1

\* Big-endian encoding and decoding of a u32 (read_u32::<BigEndian>).
U32Bytes(v) ==
    <<v \div 16777216, (v \div 65536) % 256, (v \div 256) % 256, v % 256>>

\* Values of 2^31 and more are kept as 2^31 - 1: the code compares them only
\* with lengths far below that, and every such comparison comes out the same.
BE32(buf, p) ==
    IF buf[p + 1] >= 128 THEN 2147483647
    ELSE buf[p + 1] * 16777216 + buf[p + 2] * 65536 + buf[p + 3] * 256 + buf[p + 4]

EncodeItem(e) ==
    U32Bytes(e.offset) \o U32Bytes(e.length) \o U32Bytes(e.flags) \o e.name \o <<0>>

RECURSIVE EncodeItems(_)
EncodeItems(es) ==
    IF es = <<>> THEN <<>> ELSE EncodeItem(Head(es)) \o EncodeItems(Tail(es))

NoItem == [offset |-> 0, length |-> 0, flags |-> 0, name |-> <<>>]

\* read_next_item: the offset, the length, the flags, then the name up to and
\* including its null terminator.  An exhausted cursor is UnexpectedEof with
\* nothing consumed; a partial entry is Truncated with the rest consumed.
ReadNextItem(buf, p) ==
    LET n == Len(buf)
        nulls == {j \in (p + 12)..(n - 1) : buf[j + 1] = 0}
    IN  IF p >= n
        THEN [tag |-> "UnexpectedEof", item |-> NoItem, pos |-> p]
        ELSE IF n - p < 12 \/ nulls = {}
        THEN [tag |-> "Truncated", item |-> NoItem, pos |-> n]
        ELSE LET j == CHOOSE k \in nulls : \A m \in nulls : k <= m
             IN  [tag |-> "Ok",
                  item |-> [offset |-> BE32(buf, p),
                            length |-> BE32(buf, p + 4),
                            flags |-> BE32(buf, p + 8),
                            name |-> SubSeq(buf, p + 13, j)],
                  pos |-> j + 1]

\* Files::next: what the iterator returns for a result of read_next_item.
NextOutcome_swallow(r) == IF r.tag = "Ok" THEN "SomeOk" ELSE "None"

NextOutcome_noend(r) == IF r.tag = "Ok" THEN "SomeOk" ELSE "SomeErr"

NextOutcome(r) ==
    IF r.tag = "Ok" THEN "SomeOk"
    ELSE IF r.tag = "UnexpectedEof" THEN "None"
    ELSE "SomeErr"

Yield(r) == [tag |-> r.tag, item |-> r.item]

FilesNextStep ==
    LET r == ReadNextItem(index, ipos)
        o == NextOutcome(r)
    IN  /\ ipos' = r.pos
        /\ last' = o
        /\ yielded' = IF o = "None" THEN yielded ELSE Append(yielded, Yield(r))
        /\ UNCHANGED <<index, ents>>

FilesIdle ==
    index = <<>> /\ ipos = 0 /\ last = "init" /\ yielded = <<>> /\ ents = <<>>

\* ---- the Files iterator over index buffers

Names == {<<97>>, <<97, 98>>}

Items == [offset : {8, 300}, length : {0, 5}, flags : {420}, name : Names]

ItemLists == UNION {[1..k -> Items] : k \in 0..MaxEntries}

FilesNext ==
    /\ FilesNextStep
    /\ UNCHANGED <<roundVars, srcVars, streamVars, marVars>>

SourceIdle == src = <<>> /\ srcLen = 0 /\ pos = 0

\* No stream: kind "closed".  start, len and sniff record the call that was made:
\* the cursor it found, the length it was given, the header bytes it asked for.
NoStream ==
    [kind |-> "closed", start |-> 0, len |-> 0, sniff |-> 0, limit |-> 0,
     raw |-> <<>>, eof |-> FALSE]

StreamIdle == stream = NoStream /\ res = "init"

MarIdle ==
    /\ opened = "none" /\ info = 0 /\ alloc = 0
    /\ snap = <<>> /\ calls = 0 /\ between = FALSE

InitRound == RoundIdle /\ FilesIdle /\ SourceIdle /\ StreamIdle /\ MarIdle

SpecRound == InitRound /\ [][RoundUpCall]_vars

InitFiles ==
    /\ \E es \in ItemLists :
          /\ ents = es
          /\ \E cut \in 0..Len(EncodeItems(es)) :
                index = SubSeq(EncodeItems(es), 1, cut)
    /\ ipos = 0 /\ last = "init" /\ yielded = <<>>
    /\ RoundIdle /\ SourceIdle /\ StreamIdle /\ MarIdle

SpecFiles == InitFiles /\ [][FilesNext]_vars

\* ---------------------------------------------------------- the byte source

\* The byte at position i: the explicit bytes, then zeros up to srcLen.
ByteAt(i) == IF i < Len(src) THEN src[i + 1] ELSE 0

SrcBytes(p, n) == [i \in 1..n |-> ByteAt(p + i - 1)]

\* The bytes between the cursor and the end of the source.
Avail(p) == IF p < srcLen THEN srcLen - p ELSE 0

\* Take::read, with the inner read free to return fewer bytes than asked for:
\* the numbers of bytes one read may transfer.
TakeCounts(limit, p) ==
    IF limit = 0 \/ Avail(p) = 0 THEN {0}
    ELSE 1..Min(MaxBuf, Min(limit, Avail(p)))

\* ------------------------------------------------------- CompressedRead::new

\* The number of header bytes read_exact is asked for.
SniffLen_offbyone(length) == IF length >= 6 THEN 6 ELSE IF length > 3 THEN 3 ELSE 0

SniffLen(length) == IF length > 6 THEN 6 ELSE IF length > 3 THEN 3 ELSE 0

\* let mut header = [0_u8; 6], with its first k bytes read from the source.
Header(p, k) == [i \in 1..6 |-> IF i <= k THEN ByteAt(p + i - 1) ELSE 0]

\* inner.seek(SeekFrom::Start(position)) after the header was read.
SeekBack_skipped(position, cur) == cur

SeekBack(position, cur) == position

\* The tag of the classification of a header.
Classify(header) ==
    IF SubSeq(header, 1, 3) = BZ2_HEADER THEN "Bz2"
    ELSE IF header = XZ_HEADER THEN "Xz"
    ELSE "None"

\* XzDecoder: the content of an xz stream, here the bytes after its magic.
XzDecode(raw) == SubSeq(raw, 7, Len(raw))

\* The bytes a stream has yielded so far.
StreamOut(st) == IF st.kind = "Xz" THEN XzDecode(st.raw) ELSE st.raw

\* inner.take(length), wrapped as the tag says.
OpenStream(kind, p, length, k) ==
    [kind |-> kind, start |-> p, len |-> length, sniff |-> k, limit |-> length,
     raw |-> <<>>, eof |-> FALSE]

FailedStream(p, length, k) ==
    [NoStream EXCEPT !.start = p, !.len = length, !.sniff = k]

\* io::Error::new(ErrorKind::InvalidData, "BZ2 compression not yet supported.")
Bz2Error == "InvalidData: BZ2 compression not yet supported."

\* CompressedRead::new(inner, length) on the source at its cursor.
NewStep(length) ==
    LET position == pos
        k == SniffLen(length)
    IN  IF k > Avail(position)
        THEN \* read_exact fails and `?` returns: the bytes it consumed stay consumed
             /\ res' = "UnexpectedEof"
             /\ stream' = FailedStream(position, length, k)
             /\ pos' \in position..Max(position, srcLen)
        ELSE LET header == Header(position, k)
                 tag == Classify(header)
                 back == SeekBack(position, position + k)
             IN  /\ pos' = back
                 /\ IF tag = "Bz2"
                    THEN /\ res' = Bz2Error
                         /\ stream' = FailedStream(position, length, k)
                    ELSE /\ res' = "Ok"
                         /\ stream' = OpenStream(tag, position, length, k)

\* CompressedRead::read, and Take::read under it: one read on the open stream.
ReadStep ==
    /\ stream.kind # "closed"
    /\ \E n \in TakeCounts(stream.limit, pos) :
          /\ stream' = [stream EXCEPT !.raw = @ \o SrcBytes(pos, n),
                                      !.limit = @ - n,
                                      !.eof = (n = 0)]
          /\ pos' = pos + n
    /\ UNCHANGED res

\* ---- the detector on byte sources

\* Signature-bearing and plain contents of a given size, each also with one
\* byte replaced by a plain one, and every prefix of those.
PlainBytes(n) == [i \in 1..n |-> Plain]

Bases(n) ==
    {PlainBytes(n),
     [i \in 1..n |-> IF i <= 3 THEN BZ2_HEADER[i] ELSE Plain],
     [i \in 1..n |-> IF i <= 6 THEN XZ_HEADER[i] ELSE Plain]}

Variants(b) == {b} \cup {[b EXCEPT ![i] = Plain] : i \in 1..Len(b)}

Bodies(n) ==
    UNION {{SubSeq(v, 1, k) : k \in 0..n} : v \in UNION {Variants(b) : b \in Bases(n)}}

Pads == UNION {[1..n -> {Plain}] : n \in 0..MaxPad}

InitDetect ==
    /\ \E pad \in Pads, body \in Bodies(MaxBody) :
          /\ src = pad \o body
          /\ srcLen = Len(pad) + Len(body)
          /\ pos = Len(pad)
    /\ StreamIdle
    /\ RoundIdle /\ FilesIdle /\ MarIdle

CompressedReadNew ==
    /\ \E length \in 0..MaxLength : NewStep(length)
    /\ UNCHANGED <<src, srcLen>>
    /\ UNCHANGED <<roundVars, filesVars, marVars>>

CompressedReadRead ==
    /\ ReadStep
    /\ UNCHANGED <<src, srcLen>>
    /\ UNCHANGED <<roundVars, filesVars, marVars>>

SpecDetect == InitDetect /\ [][CompressedReadNew \/ CompressedReadRead]_vars

\* ------------------------------------------------------------------- Mar

\* The fixed preamble: the 4-byte magic, then offset_to_index.
PreambleSize == 8

MarMagic == <<77, 65, 82, 49>>

\* get_info: the preamble parser.  An oversized source and an offset_to_index
\* outside the source are InvalidData, a source shorter than the preamble is
\* Truncated.
GetInfo ==
    IF srcLen > MAX_SIZE_OF_MAR_FILE THEN [tag |-> "InvalidData", offset_to_index |-> 0]
    ELSE IF srcLen < PreambleSize THEN [tag |-> "Truncated", offset_to_index |-> 0]
    ELSE IF BE32(SrcBytes(4, 4), 0) > srcLen THEN [tag |-> "InvalidData", offset_to_index |-> 0]
    ELSE [tag |-> "Ok", offset_to_index |-> BE32(SrcBytes(4, 4), 0)]

\* Mar::from_buffer.  get_info leaves the cursor anywhere.
FromBufferStep ==
    /\ opened = "none"
    /\ opened' = GetInfo.tag
    /\ info' = GetInfo.offset_to_index
    /\ pos' \in 0..Min(srcLen, Len(src))
    /\ UNCHANGED <<alloc, snap, calls, between>>

\* self.buffer.seek(SeekFrom::Start(self.info.offset_to_index as u64))
FilesStart_noseek(offset_to_index, cur) == cur

FilesStart(offset_to_index, cur) == offset_to_index

\* Mar::files: seek to the index, read size_of_index, allocate that many
\* bytes, fill them.  A stream handed out earlier is gone: files borrows the
\* handle.
FilesStep ==
    /\ opened = "Ok"
    /\ stream' = NoStream
    /\ LET p == FilesStart(info, pos)
       IN  IF Avail(p) < 4
           THEN /\ res' = "UnexpectedEof"
                /\ pos' \in p..Max(p, srcLen)
                /\ UNCHANGED <<alloc, snap, calls, filesVars>>
           ELSE LET size_of_index == BE32(SrcBytes(p, 4), 0)
                IN  /\ alloc' = size_of_index
                    /\ IF Avail(p + 4) < size_of_index
                       THEN /\ res' = "UnexpectedEof"
                            /\ pos' \in (p + 4)..Max(p + 4, srcLen)
                            /\ UNCHANGED <<snap, calls, filesVars>>
                       ELSE /\ res' = "Ok"
                            /\ pos' = p + 4 + size_of_index
                            /\ index' = SrcBytes(p + 4, size_of_index)
                            /\ ipos' = 0
                            /\ last' = "init"
                            /\ yielded' = <<>>
                            /\ snap' = IF calls = 0 THEN SrcBytes(p + 4, size_of_index) ELSE snap
                            /\ calls' = Min(calls + 1, 2)
                            /\ UNCHANGED ents
    /\ UNCHANGED <<opened, info, between>>

\* Mar::read: seek to the entry, hand out the next item.length bytes.
ReadStream(item) == OpenStream("Take", item.offset, item.length, 0)

MarReadStep(item) ==
    /\ opened = "Ok"
    /\ pos' = item.offset
    /\ stream' = ReadStream(item)
    /\ res' = "Ok"
    /\ between' = (calls >= 1)
    /\ UNCHANGED <<opened, info, alloc, snap, calls>>

\* ---- the archive handle on archives

Contents == {Hello, XZ_HEADER \o <<Plain>>, BZ2_HEADER \o <<Plain>>}

FileLists == UNION {[1..k -> Contents] : k \in 0..MaxFiles}

RECURSIVE Concat(_)
Concat(ss) == IF ss = <<>> THEN <<>> ELSE Head(ss) \o Concat(Tail(ss))

\* The index entries of the files, laid out one after the other behind the
\* preamble; `beyond` is added to the length of the last one.
ItemsOf(files, beyond) ==
    [i \in 1..Len(files) |->
        [offset |-> PreambleSize + Len(Concat(SubSeq(files, 1, i - 1))),
         length |-> Len(files[i]) + (IF i = Len(files) THEN beyond ELSE 0),
         flags |-> 420,
         name |-> <<96 + i>>]]

\* A size_of_index over the ceiling.
HugeSize == MAX_SIZE_OF_MAR_FILE + 1

Archive(files, beyond, offset_to_index, size_of_index) ==
    MarMagic \o U32Bytes(offset_to_index) \o Concat(files)
        \o U32Bytes(size_of_index) \o EncodeItems(ItemsOf(files, beyond))

ArchiveSize(files) ==
    PreambleSize + Len(Concat(files)) + 4 + Len(EncodeItems(ItemsOf(files, 0)))

InitMar ==
    /\ \E files \in FileLists, over \in BOOLEAN, far \in BOOLEAN,
          huge \in BOOLEAN, sparse \in BOOLEAN :
          LET size == ArchiveSize(files)
              beyond == IF over THEN size ELSE 0
              off == IF far THEN size + 1 ELSE PreambleSize + Len(Concat(files))
              isize == IF huge THEN HugeSize ELSE Len(EncodeItems(ItemsOf(files, 0)))
          IN  /\ src = Archive(files, beyond, off, isize)
              /\ srcLen = IF sparse THEN MAX_SIZE_OF_MAR_FILE + 1 ELSE size
    /\ pos = 0
    /\ StreamIdle
    /\ opened = "none" /\ info = 0 /\ alloc = 0
    /\ snap = <<>> /\ calls = 0 /\ between = FALSE
    /\ RoundIdle /\ FilesIdle

MarFromBuffer ==
    /\ FromBufferStep
    /\ UNCHANGED <<src, srcLen, stream, res>>
    /\ UNCHANGED <<roundVars, filesVars>>

MarFiles ==
    /\ FilesStep
    /\ UNCHANGED <<src, srcLen>>
    /\ UNCHANGED roundVars

MarFilesNext ==
    /\ calls >= 1
    /\ FilesNextStep
    /\ UNCHANGED <<roundVars, srcVars, streamVars, marVars>>

MarRead ==
    /\ \E i \in 1..Len(yielded) :
          /\ yielded[i].tag = "Ok"
          /\ MarReadStep(yielded[i].item)
    /\ UNCHANGED <<src, srcLen>>
    /\ UNCHANGED <<roundVars, filesVars>>

MarStreamRead ==
    /\ ReadStep
    /\ UNCHANGED <<src, srcLen>>
    /\ UNCHANGED <<roundVars, filesVars, marVars>>

Next == MarFromBuffer \/ MarFiles \/ MarFilesNext \/ MarRead \/ MarStreamRead

Spec == InitMar /\ [][Next]_vars

\* ------------------------------------------------------------------ claims

\* C10: round_up(n, incr) is the smallest multiple of incr that is greater
\* than or equal to n, for every n >= 0 and incr >= 1.
RoundUpIsLeastMultiple ==
    rdone => /\ rres % rincr = 0
             /\ rres >= rn
             /\ rres - rn < rincr

\* The end of the k-th encoded entry within the index buffer.
RECURSIVE Boundary(_, _)
Boundary(es, k) ==
    IF k = 0 THEN 0 ELSE Boundary(es, k - 1) + mar_item_size(Len(es[k].name))

Complete == CHOOSE k \in 0..Len(ents) :
    /\ Boundary(ents, k) <= Len(index)
    /\ \A m \in 0..Len(ents) : Boundary(ents, m) <= Len(index) => m <= k

MidEntry == Boundary(ents, Complete) < Len(index)

Expected ==
    [i \in 1..Complete |-> [tag |-> "Ok", item |-> ents[i]]]
    \o (IF MidEntry THEN <<[tag |-> "Truncated", item |-> NoItem]>> ELSE <<>>)

\* C3: a buffer that ends in the middle of an entry yields, after its whole
\* entries, exactly one Truncated error; None is returned only with the buffer
\* exhausted before any byte of a new entry.
TruncationIsReported ==
    /\ IsPrefix(yielded, Expected)
    /\ last = "None" => yielded = Expected /\ ipos = Len(index)

TruncationWitness ==
    /\ last = "None"
    /\ MidEntry
    /\ Complete >= 1
    /\ yielded[Len(yielded)].tag = "Truncated"

\* C9: the entry sequence is finite: every call that returns Some consumes at
\* least one byte of the buffer, so there are at most Len(index) of them, and
\* once None has been returned every later call returns None.
EntrySequenceIsFinite ==
    /\ [](Len(yielded) <= Len(index))
    /\ [][last' # "None" => ipos' > ipos]_vars
    /\ [][last = "None" => last' = "None"]_vars

FiniteWitness ==
    /\ last = "None"
    /\ Len(yielded) >= 2
    /\ yielded[1].tag = "Ok"
    /\ yielded[Len(yielded)].tag = "Truncated"
    /\ ipos = Len(index)

\* ---- CompressedRead

\* The header length the claim gives for a declared length.
ClaimedSniff(length) == IF length > 6 THEN 6 ELSE IF length > 3 THEN 3 ELSE 0

\* The source bytes at [p, p + k) that exist.
Stored(p, k) == SrcBytes(p, Min(k, Avail(p)))

StartsWith(s, h) == Len(s) >= Len(h) /\ SubSeq(s, 1, Len(h)) = h

\* What the claim says new(source, length) at cursor p comes to.
ThreeWay(p, length) ==
    LET prefix == Stored(p, ClaimedSniff(length))
    IN  IF StartsWith(prefix, BZ2_HEADER) THEN "Bz2"
        ELSE IF prefix = XZ_HEADER THEN "Xz"
        ELSE "None"

Classified(tag) ==
    IF tag = "Bz2" THEN res = Bz2Error /\ stream.kind = "closed"
    ELSE res = "Ok" /\ stream.kind = tag

\* C2 as stated: for every input new sniffs 6, 3 or 0 bytes by the declared
\* length and comes to one of three: the BZ2 rejection, an Xz stream, or an
\* uncompressed stream.
ThreeWayForEveryInput ==
    res # "init" =>
        /\ stream.sniff = ClaimedSniff(stream.len)
        /\ Classified(ThreeWay(stream.start, stream.len))

\* C2 as amended: the three-way classification holds whenever the source holds
\* the sniffed prefix; when the source ends before it, new fails with
\* UnexpectedEof and hands out no stream.
ThreeWayWhenPrefixPresent ==
    res # "init" =>
        /\ stream.sniff = ClaimedSniff(stream.len)
        /\ IF ClaimedSniff(stream.len) <= Avail(stream.start)
           THEN Classified(ThreeWay(stream.start, stream.len))
           ELSE res = "UnexpectedEof" /\ stream.kind = "closed"

ThreeWayWitness ==
    /\ res = Bz2Error
    /\ stream.sniff = 3
    /\ stream.start > 0

\* C7: on every return from new, success, BZ2 rejection or a failed header
\* read, the cursor is where it was when new was called.
SniffKeepsCursor ==
    (res # "init" /\ stream.raw = <<>>) => pos = stream.start

\* C6: an uncompressed stream of declared length L opened at p yields the
\* source bytes at [p, p + L) in order and then ends, all L of them when the
\* source holds them; no stream moves the cursor past p + L.
StreamYieldsItsRange ==
    stream.kind # "closed" =>
        /\ pos <= stream.start + stream.len
        /\ stream.kind = "None" =>
              /\ StreamOut(stream) = SrcBytes(stream.start, Len(stream.raw))
              /\ Len(StreamOut(stream)) <= Min(stream.len, Avail(stream.start))
              /\ stream.eof =>
                    Len(StreamOut(stream)) = Min(stream.len, Avail(stream.start))

StreamWitness ==
    /\ stream.kind = "None"
    /\ stream.eof
    /\ stream.start > 0
    /\ stream.len = 5
    /\ StreamOut(stream) = SrcBytes(stream.start, 5)
    /\ stream.start + 5 < srcLen

\* ---- Mar

\* The archive bytes of the range a stream was opened over.
Range(st) == SrcBytes(st.start, st.len)

\* C1: read(entry) yields the decompressed content when the stored bytes
\* begin with the xz signature, and the stored bytes unchanged when they do
\* not.
ReadDecompresses ==
    (stream.kind # "closed" /\ stream.eof /\ stream.start + stream.len <= srcLen) =>
        StreamOut(stream) =
            IF StartsWith(Range(stream), XZ_HEADER)
            THEN XzDecode(Range(stream))
            ELSE Range(stream)

\* C4: opening an archive of more than 500 MiB fails with InvalidData, and no
\* index buffer is allocated from a size_of_index beyond both the archive size
\* and the 500 MiB ceiling.
IndexAllocationIsBounded ==
    /\ (srcLen > MAX_SIZE_OF_MAR_FILE /\ opened # "none") => opened = "InvalidData"
    /\ alloc <= srcLen \/ alloc <= MAX_SIZE_OF_MAR_FILE

\* C5: read(entry) hands out a stream only for an entry with
\* offset + length <= the archive size.
ReadRejectsOutOfRange ==
    stream.kind # "closed" => stream.start + stream.len <= srcLen

\* The entry sequence of an index buffer: what Files::next returns, call by
\* call, until None.
RECURSIVE EntriesFrom(_, _)
EntriesFrom(buf, p) ==
    LET r == ReadNextItem(buf, p)
    IN  IF NextOutcome(r) = "None" THEN <<>>
        ELSE <<Yield(r)>> \o EntriesFrom(buf, r.pos)

\* C8: every files() call on a handle yields the entry sequence of the first
\* one, whatever reads and iterations happened in between.
FilesIsRepeatable ==
    calls >= 1 => EntriesFrom(index, 0) = EntriesFrom(snap, 0)

FilesWitness ==
    /\ calls = 2
    /\ between
    /\ last = "init"
    /\ pos = srcLen
    /\ Len(EntriesFrom(index, 0)) = MaxFiles

====
